---- MODULE Spec2Model ----
(***************************************************************************)
(* Burst detection of the cognitive-warfare dashboard, with the timeline    *)
(* aggregation that feeds it and the result cache.                         *)
(*                                                                         *)
(*   detect_bursts_in_timeline   src/tabs/burstiness.py                    *)
(*   detect_bursts               src/utils/burst_detection.py              *)
(*   calculate_burst_strength    src/utils/burst_detection.py              *)
(*   calculate_burst_statistics  src/utils/burst_detection.py              *)
(*   validate_burst_parameters   src/utils/burst_detection.py              *)
(*   fetch_burst_timeline_data   src/tabs/burstiness.py                    *)
(*   fetch_timeline_data         src/database/data_fetchers.py             *)
(*   analyze_bursts              src/tabs/burstiness.py                    *)
(*   cache_result, clear_cache   src/utils/cache.py                        *)
(*                                                                         *)
(* Numbers.  Counts are integers.  A sensitivity is kept in tenths (the    *)
(* slider moves in steps of 0.1), so 10 stands for 1.0.  pandas' rolling   *)
(* mean and sample standard deviation over a window of w values with sum S *)
(* and sum of squares Q are the reals S/w and sqrt((w*Q - S*S)/(w*(w-1))); *)
(* the model keeps the integers S, Q and w and decides every comparison of *)
(* the code exactly, by clearing denominators and squaring.  A value that  *)
(* pandas leaves undefined (NaN) is the record NaN.                         *)
(***************************************************************************)
EXTENDS Integers, Sequences, FiniteSets, TLC

VARIABLES
    timeline_df,   \* the DataFrame handed to detect_bursts_in_timeline: rows in order
    sensitivity,   \* the sensitivity argument, in tenths
    pc,            \* "ready", or the function that has returned
    data,          \* the Series handed to detect_bursts (rows of one category) or to
                   \* validate_burst_parameters, or <<>>
    bursts,        \* the list a detector returned, or the list handed to
                   \* calculate_burst_statistics
    outcome,       \* how the call ended: "none" before it, "return" at a return of the
                   \* body, "except" at the return of the except clause
    validation,    \* the tuple validate_burst_parameters returned, or <<>>
    stats,         \* the dict calculate_burst_statistics returned, or <<>>
    observations,  \* the rows of chunk_classifications JOIN chunks JOIN records
    time_granularity,  \* the granularity asked for
    filters,       \* the filter arguments of fetch_timeline_data
    n_clicks,      \* the clicks on burst-analyze-button
    children,      \* what analyze_bursts returned for burst-results-container
    store,         \* what analyze_bursts returned for burst-data-store
    _cache,        \* utils.cache._cache: cache key -> result
    _cache_timestamps,  \* utils.cache._cache_timestamps: cache key -> time.time() of the store
    clock,         \* time.time(), in seconds
    calls          \* the calls of cached functions and of clear_cache under way

detectorVars == <<timeline_df, sensitivity, pc, data, bursts, outcome, validation, stats>>
databaseVars == <<observations, time_granularity, filters>>
callbackVars == <<n_clicks, children, store>>
cacheVars == <<_cache, _cache_timestamps, clock, calls>>

vars == <<detectorVars, databaseVars, callbackVars, cacheVars>>

----------------------------------------------------------------------------
(* Bounds of the model. *)

NumPeriods == 5        \* periods 1..NumPeriods of the generated timelines
MaxCount == 2          \* counts 0..MaxCount of the generated timelines
MaxSeriesLen == 4      \* lengths 0..MaxSeriesLen of the series handed to the validation
MaxBursts == 3         \* lengths 0..MaxBursts of the lists handed to the statistics
MaxDuration == 2       \* durations 1..MaxDuration of those bursts
MaxIntensity == 2      \* intensities 0..MaxIntensity of those bursts

(* Program constants. *)

TimelineWindow == 3    \* rolling(window=3, center=True)
MinWindow == 3         \* max(3, len(data) // 10)
WindowDivisor == 10    \* max(3, len(data) // 10)
MinTimelinePoints == 3 \* if len(cat_data) < 3: continue
MinSeriesPoints == 5   \* if len(data) < 5: return []
ThresholdNumerator == 2 \* threshold_multiplier = 2.0 / sensitivity
Tenth == 10            \* one unit of sensitivity, in tenths
DenominatorSmoothing == 1 \* (row['rolling_std'] + 1)

\* the undefined value of pandas, unequal to every number
NaN == [nan |-> TRUE]

----------------------------------------------------------------------------
(* Small helpers. *)

Max(a, b) == IF a >= b THEN a ELSE b

Range(s) == {s[i] : i \in DOMAIN s}

\* floor of the square root of n >= 0
ISqrt(n) == CHOOSE r \in 0..n : r * r <= n /\ (r + 1) * (r + 1) > n

IsSquare(n) == ISqrt(n) * ISqrt(n) = n

\* sign of a
Sign(a) == IF a > 0 THEN 1 ELSE IF a < 0 THEN 0 - 1 ELSE 0

\* sign of sa*sqrt(p) + sb*sqrt(q), for p, q >= 0 and sa, sb in {-1, 0, 1}
SignSurd2(sa, p, sb, q) ==
    LET a == IF p = 0 THEN 0 ELSE sa
        b == IF q = 0 THEN 0 ELSE sb
    IN  IF a = 0 THEN b
        ELSE IF b = 0 THEN a
        ELSE IF a = b THEN a
        ELSE a * Sign(p - q)

\* sign of u*(sqrt(a) + sqrt(b)) - u*sqrt(c), for a, b, c >= 0 and u in {-1, 1}:
\* (sqrt(a)+sqrt(b))^2 = a + b + 2*sqrt(a*b) against c
SignPairAgainstOne(u, a, b, c) ==
    LET d == c - a - b
    IN  IF d < 0 THEN u ELSE u * Sign(4 * a * b - d * d)

\* sign of s1*sqrt(p) + s2*sqrt(q) + s3*sqrt(r), for p, q, r >= 0 and signs in {-1, 0, 1}
SignSurd3(s1, p, s2, q, s3, r) ==
    LET sg == <<IF p = 0 THEN 0 ELSE s1, IF q = 0 THEN 0 ELSE s2, IF r = 0 THEN 0 ELSE s3>>
        rad == <<IF sg[1] = 0 THEN 0 ELSE p, IF sg[2] = 0 THEN 0 ELSE q,
                 IF sg[3] = 0 THEN 0 ELSE r>>
        neg == {i \in 1..3 : sg[i] < 0}
        pos == {i \in 1..3 : sg[i] > 0}
    IN  IF neg = {} THEN (IF pos = {} THEN 0 ELSE 1)
        ELSE IF pos = {} THEN 0 - 1
        ELSE \* one term stands alone against the two others (one of them may be 0)
             LET u == IF Cardinality(neg) = 1 THEN 1 ELSE 0 - 1
                 lone == IF u = 1 THEN CHOOSE i \in neg : TRUE ELSE CHOOSE i \in pos : TRUE
                 i1 == CHOOSE i \in 1..3 : i # lone
                 i2 == CHOOSE i \in 1..3 : i # lone /\ i # i1
             IN  SignPairAgainstOne(u, rad[i1], rad[i2], rad[lone])

----------------------------------------------------------------------------
(* pandas: Series.rolling(window=w, center=True).mean() / .std().          *)
(* The window of position i is [i + off - w + 1, i + off], off = (w-1)//2, *)
(* and min_periods defaults to w: a window that does not lie inside the    *)
(* series gives NaN.                                                       *)

RECURSIVE SumOver(_, _, _)
SumOver(x, lo, hi) == IF lo > hi THEN 0 ELSE x[lo] + SumOver(x, lo + 1, hi)

RECURSIVE SumSqOver(_, _, _)
SumSqOver(x, lo, hi) == IF lo > hi THEN 0 ELSE x[lo] * x[lo] + SumSqOver(x, lo + 1, hi)

\* mutant: rolling(window=w) without center=True
WindowHi_trailing(i, w) == i

WindowHi(i, w) == i + ((w - 1) \div 2)

WindowLo(i, w) == WindowHi(i, w) - w + 1

RollingDefined(x, i, w) == WindowLo(i, w) >= 1 /\ WindowHi(i, w) <= Len(x)

\* rolling mean at i: the rational num/den, or NaN
rolling_mean(x, i, w) ==
    IF RollingDefined(x, i, w)
    THEN [num |-> SumOver(x, WindowLo(i, w), WindowHi(i, w)), den |-> w]
    ELSE NaN

\* rolling sample std at i: sqrt(var / (w*(w-1))) with var = w*Q - S*S, or NaN
rolling_std(x, i, w) ==
    IF RollingDefined(x, i, w)
    THEN LET S == SumOver(x, WindowLo(i, w), WindowHi(i, w))
             Q == SumSqOver(x, WindowLo(i, w), WindowHi(i, w))
         IN  [var |-> w * Q - S * S, w |-> w]
    ELSE NaN

\* mutant: threshold_multiplier = 2.0 * sensitivity
ExceedsThreshold_inverted(count, mean, std, s) ==
    IF mean = NaN \/ std = NaN THEN FALSE
    ELSE LET w == mean.den
             D == w * count - mean.num
         IN  SignSurd2(Sign(D), Tenth * Tenth * D * D * (w - 1),
                       0 - Sign(s), ThresholdNumerator * ThresholdNumerator * s * s * w * std.var) = 1

\* mutant: count >= threshold
ExceedsThreshold_nonstrict(count, mean, std, s) ==
    IF mean = NaN \/ std = NaN THEN FALSE
    ELSE LET w == mean.den
             D == w * count - mean.num
             T == ThresholdNumerator * Tenth
         IN  SignSurd2(Sign(D), D * D * s * s * (w - 1),
                       0 - Sign(s), T * T * w * std.var) >= 0

\* mutant: abs(count - mean) > (2.0 / s) * std, which flags dips as well
ExceedsThreshold_two_sided(count, mean, std, s) ==
    IF mean = NaN \/ std = NaN THEN FALSE
    ELSE LET w == mean.den
             D == w * count - mean.num
             T == ThresholdNumerator * Tenth
         IN  SignSurd2(Sign(D) * Sign(D), D * D * s * s * (w - 1),
                       0 - Sign(s), T * T * w * std.var) = 1

\* mutant: rolling(...).std(ddof=0), the population standard deviation
ExceedsThreshold_population(count, mean, std, s) ==
    IF mean = NaN \/ std = NaN THEN FALSE
    ELSE LET w == mean.den
             D == w * count - mean.num
             T == ThresholdNumerator * Tenth
         IN  SignSurd2(Sign(D), D * D * s * s * w,
                       0 - Sign(s), T * T * w * std.var) = 1

\* count > mean + (2.0 / s) * std, for s # 0; a comparison with NaN is False.
\* With D = w*count - S:  D/w > (20/s) * sqrt(var/(w*(w-1)))
\*   <=>  sign(D)*sqrt(D^2 * s^2 * (w-1)) - sign(s)*sqrt(400 * w * var) > 0
ExceedsThreshold(count, mean, std, s) ==
    IF mean = NaN \/ std = NaN THEN FALSE
    ELSE LET w == mean.den
             D == w * count - mean.num
             T == ThresholdNumerator * Tenth
         IN  SignSurd2(Sign(D), D * D * s * s * (w - 1),
                       0 - Sign(s), T * T * w * std.var) = 1

\* mutant: (count - mean) / std, without the + 1
PointIntensity_unsmoothed(count, mean, std) ==
    [dev |-> mean.den * count - mean.num, var |-> std.var, w |-> std.w, plus |-> 0]

\* (count - mean) / (std + 1), kept as dev = w*(count - mean), the var and w of the
\* std, and the number added to the std
PointIntensity(count, mean, std) ==
    [dev |-> mean.den * count - mean.num, var |-> std.var, w |-> std.w,
     plus |-> DenominatorSmoothing]

\* sign of i1 - i2 for two point intensities over windows of the same size and with
\* the same number e added to the std:
\* sign of e*(D1 - D2)*sqrt(c) + D1*sqrt(V2) - D2*sqrt(V1), c = w*(w-1)
CompareIntensity(i1, i2) ==
    LET c == i1.w * (i1.w - 1)
        d == i1.plus * (i1.dev - i2.dev)
    IN  SignSurd3(Sign(d), c * d * d,
                  Sign(i1.dev), i1.dev * i1.dev * i2.var,
                  0 - Sign(i2.dev), i2.dev * i2.dev * i1.var)

----------------------------------------------------------------------------
(* DataFrame helpers. *)

\* Series.unique(): the values in order of first appearance
Unique(seq) ==
    LET firsts == SelectSeq([i \in 1..Len(seq) |-> i],
                            LAMBDA i : \A j \in 1..(i - 1) : seq[j] # seq[i])
    IN  [k \in 1..Len(firsts) |-> seq[firsts[k]]]

CategoryColumn(df) == [i \in 1..Len(df) |-> df[i].category]

CountColumn(df) == [i \in 1..Len(df) |-> df[i].count]

\* timeline_df[timeline_df['category'] == category]
SelectCategory(df, category) == SelectSeq(df, LAMBDA row : row.category = category)

\* the place of row i among the rows sorted by period, rows of the same period in
\* their order in df
PlaceByPeriod(df, i) ==
    1 + Cardinality({j \in DOMAIN df :
                        \/ df[j].period < df[i].period
                        \/ df[j].period = df[i].period /\ j < i})

\* DataFrame.sort_values('period')
SortValuesByPeriod(df) ==
    [k \in 1..Len(df) |-> df[CHOOSE i \in DOMAIN df : PlaceByPeriod(df, i) = k]]

\* insert b into a list sorted by descending key, after the elements that are not
\* smaller: list.sort(key=..., reverse=True) keeps equal keys in their original order
RECURSIVE InsertDescending(_, _)
InsertDescending(sorted, b) ==
    IF sorted = <<>> THEN <<b>>
    ELSE IF CompareIntensity(sorted[Len(sorted)].intensity, b.intensity) >= 0
         THEN Append(sorted, b)
    ELSE Append(InsertDescending(SubSeq(sorted, 1, Len(sorted) - 1), b), sorted[Len(sorted)])

\* bursts.sort(key=lambda x: x['intensity'], reverse=True)
RECURSIVE SortByIntensity(_)
SortByIntensity(bs) ==
    IF bs = <<>> THEN <<>>
    ELSE InsertDescending(SortByIntensity(SubSeq(bs, 1, Len(bs) - 1)), bs[Len(bs)])

RECURSIVE Flatten(_)
Flatten(seqs) == IF seqs = <<>> THEN <<>> ELSE Head(seqs) \o Flatten(Tail(seqs))

----------------------------------------------------------------------------
(* detect_bursts_in_timeline, src/tabs/burstiness.py *)

\* mutant: the baseline window leaves the bucket itself out (mean and std of the two
\* neighbours)
is_burst_leave_one_out(cat_data, i, s) ==
    LET x == CountColumn(cat_data)
    IN  IF i = 1 \/ i = Len(x) THEN FALSE
        ELSE LET a == x[i - 1]
                 b == x[i + 1]
             IN  ExceedsThreshold(x[i], [num |-> a + b, den |-> 2],
                                  [var |-> 2 * (a * a + b * b) - (a + b) * (a + b), w |-> 2], s)

\* cat_data['is_burst'] at row i of the rows of one category sorted by period
is_burst(cat_data, i, s) ==
    LET x == CountColumn(cat_data)
    IN  ExceedsThreshold(x[i], rolling_mean(x, i, TimelineWindow),
                         rolling_std(x, i, TimelineWindow), s)

\* the dict built for a row of burst_periods
TimelineBurst(cat_data, i, category) ==
    LET x == CountColumn(cat_data)
        mean == rolling_mean(x, i, TimelineWindow)
        std == rolling_std(x, i, TimelineWindow)
    IN  [category |-> category,
         period |-> cat_data[i].period,
         count |-> x[i],
         baseline |-> mean,
         intensity |-> PointIntensity(x[i], mean, std),
         duration |-> 1,
         start_date |-> cat_data[i].period,
         end_date |-> cat_data[i].period]

\* mutant: consecutive flagged periods are grouped, one burst for the first of a run
BurstsUpTo_first_of_run(cat_data, n, category, s) ==
    LET burst_periods == SelectSeq([i \in 1..n |-> i],
                                   LAMBDA i : /\ is_burst(cat_data, i, s)
                                              /\ ~(i > 1 /\ is_burst(cat_data, i - 1, s)))
    IN  [k \in 1..Len(burst_periods) |-> TimelineBurst(cat_data, burst_periods[k], category)]

\* the bursts one iteration of the category loop appends: one for each of the first
\* n rows that is_burst flags, in the order of the rows
BurstsUpTo(cat_data, n, category, s) ==
    LET burst_periods == SelectSeq([i \in 1..n |-> i], LAMBDA i : is_burst(cat_data, i, s))
    IN  [k \in 1..Len(burst_periods) |-> TimelineBurst(cat_data, burst_periods[k], category)]

CategoryBursts(df, category, s) ==
    LET cat_data == SortValuesByPeriod(SelectCategory(df, category))
    IN  IF Len(cat_data) < MinTimelinePoints THEN <<>>
        ELSE BurstsUpTo(cat_data, Len(cat_data), category, s)

\* a row whose period is a str in a column whose other periods are numbers; the row
\* keeps the time it stands for in period and carries the mark period_is_str
PeriodIsStr(row) == "period_is_str" \in DOMAIN row

\* sort_values('period') compares the periods of the category's rows: '<' between a
\* str and a number raises TypeError
SortRaises(df, category) ==
    LET cat_data == SelectCategory(df, category)
    IN  /\ \E i \in DOMAIN cat_data : PeriodIsStr(cat_data[i])
        /\ \E i \in DOMAIN cat_data : ~ PeriodIsStr(cat_data[i])

\* sort_values raises TypeError in a category that mixes periods, and
\* 2.0 / sensitivity raises ZeroDivisionError in the first category that is long
\* enough; the except clause then returns []
TimelineRaises(df, s) ==
    \/ \E i \in 1..Len(df) : SortRaises(df, df[i].category)
    \/ /\ s = 0
       /\ \E i \in 1..Len(df) : Len(SelectCategory(df, df[i].category)) >= MinTimelinePoints

\* the try block spans the whole body and except Exception returns []: the call ends
\* at 'return bursts' or in the except clause, and no exception reaches the caller
TimelineOutcome(df, s) == IF TimelineRaises(df, s) THEN "except" ELSE "return"

detect_bursts_in_timeline(df, s) ==
    IF TimelineRaises(df, s) THEN <<>>
    ELSE LET cats == Unique(CategoryColumn(df))
         IN  SortByIntensity(Flatten([k \in 1..Len(cats) |-> CategoryBursts(df, cats[k], s)]))

\* mutant: without cat_data.copy() and with cat_data a view of timeline_df, the column
\* assignment cat_data['is_burst'] = ... reaches the rows of timeline_df
TimelineAfterCall_shared(df, s) ==
    IF TimelineRaises(df, s) THEN df
    ELSE [i \in 1..Len(df) |->
            IF Len(SelectCategory(df, df[i].category)) < MinTimelinePoints THEN df[i]
            ELSE [period |-> df[i].period, category |-> df[i].category, count |-> df[i].count,
                  is_burst |-> <<df[i].category, df[i].period>>
                                  \in {<<b.category, b.period>> :
                                          b \in Range(detect_bursts_in_timeline(df, s))}]]

\* the frame the caller passed, after the call: the body assigns only to the local
\* list bursts and to the columns of cat_data, which boolean indexing, sort_values
\* and copy() make a frame of its own
TimelineAfterCall(df, s) == df

----------------------------------------------------------------------------
(* calculate_burst_strength and detect_bursts, src/utils/burst_detection.py *)
(* A Series is a sequence of [index, value]; an index is a period.          *)

ValueColumn(series) == [i \in 1..Len(series) |-> series[i].value]

RECURSIVE MaxOver(_, _, _)
MaxOver(x, lo, hi) == IF lo >= hi THEN x[lo] ELSE Max(x[lo], MaxOver(x, lo + 1, hi))

\* The strength (max/mean - 1) * (1 + std/mean) of n >= 2 values with sum S > 0:
\* (excess/sum) * (1 + sqrt(n*var/(n-1))/sum), excess = n*max - S, var = n*Q - S*S.
\* 0.0 is ZeroStrength.
ZeroStrength == [excess |-> 0, sum |-> 1, n |-> 2, var |-> 0]

\* data.std() of one value is NaN, so cv and strength are NaN and max(0.0, NaN) is 0.0
calculate_burst_strength(values) ==
    LET n == Len(values)
        S == SumOver(values, 1, n)
        Q == SumSqOver(values, 1, n)
    IN  IF n = 0 THEN ZeroStrength
        ELSE IF S = 0 THEN ZeroStrength                          \* mean_val == 0
        ELSE IF n = 1 THEN ZeroStrength                          \* max(0.0, NaN)
        ELSE IF n * MaxOver(values, 1, n) - S = 0 THEN ZeroStrength
        ELSE [excess |-> n * MaxOver(values, 1, n) - S, sum |-> S, n |-> n,
              var |-> n * Q - S * S]

\* sign of a - b for two strengths (both >= 0): with d = (n-1)*S^2 and
\* W = n*(n-1)*var a strength is P*((n-1)*S + sqrt(W)) / d
CompareStrength(a, b) ==
    IF a.excess = 0 \/ b.excess = 0 THEN Sign(a.excess) - Sign(b.excess)
    ELSE LET da == (a.n - 1) * a.sum * a.sum
             db == (b.n - 1) * b.sum * b.sum
             Wa == a.n * (a.n - 1) * a.var
             Wb == b.n * (b.n - 1) * b.var
             c == a.excess * (a.n - 1) * a.sum * db - b.excess * (b.n - 1) * b.sum * da
         IN  SignSurd3(Sign(c), c * c,
                       1, a.excess * db * a.excess * db * Wa,
                       0 - 1, b.excess * da * b.excess * da * Wb)

\* burst_mask[i]: data > rolling_mean + threshold_multiplier * rolling_std
burst_mask(series, i, s) ==
    LET x == ValueColumn(series)
        w == Max(MinWindow, Len(series) \div WindowDivisor)
    IN  ExceedsThreshold(x[i], rolling_mean(x, i, w), rolling_std(x, i, w), s)

\* the loop over enumerate(burst_mask): current_group is opened at a flagged position
\* that follows an unflagged one (or none) and grows with every flagged position
OpensGroup(series, i, s) ==
    burst_mask(series, i, s) /\ (i = 1 \/ ~ burst_mask(series, i - 1, s))

\* the last position appended to the group opened at i: the group is closed at the
\* first unflagged position after i, or after the loop
LastOfGroup(series, i, s) ==
    CHOOSE j \in i..Len(series) :
        /\ \A m \in i..j : burst_mask(series, m, s)
        /\ (j = Len(series) \/ ~ burst_mask(series, j + 1, s))

\* mutant: one group for each flagged position
BurstGroups_split(series, s) ==
    LET flagged == SelectSeq([i \in 1..Len(series) |-> i], LAMBDA i : burst_mask(series, i, s))
    IN  [k \in 1..Len(flagged) |-> <<flagged[k]>>]

\* burst_groups after the loop and the final 'if current_group': the groups in the
\* order in which they were opened, each the positions from its first to its last
BurstGroups(series, s) ==
    LET opened == SelectSeq([i \in 1..Len(series) |-> i], LAMBDA i : OpensGroup(series, i, s))
    IN  [k \in 1..Len(opened) |->
            [m \in 1..(LastOfGroup(series, opened[k], s) - opened[k] + 1) |-> opened[k] + m - 1]]

\* mutant: every baseline replaced by burst_values.mean()
ExcessNum_filled(series, group, k, w) == 0

\* sum over the group of (value - baseline.fillna(burst_values.mean())), over w * len(group)
RECURSIVE ExcessNum(_, _, _, _)
ExcessNum(series, group, k, w) ==
    IF k = 0 THEN 0
    ELSE LET x == ValueColumn(series)
             n == Len(group)
             Sg == SumOver([j \in 1..n |-> x[group[j]]], 1, n)
             mean == rolling_mean(x, group[k], w)
             term == IF mean = NaN THEN x[group[k]] * w * n - Sg * w
                     ELSE x[group[k]] * w * n - mean.num * n
         IN  term + ExcessNum(series, group, k - 1, w)

\* baseline_values.mean() skips NaN; burst_values.mean() when every baseline is NaN
GroupBaseline(series, group, w) ==
    LET x == ValueColumn(series)
        n == Len(group)
        defined == {j \in 1..n : rolling_mean(x, group[j], w) # NaN}
        sums == [j \in 1..n |-> IF j \in defined THEN rolling_mean(x, group[j], w).num ELSE 0]
    IN  IF defined = {} THEN [num |-> SumOver([j \in 1..n |-> x[group[j]]], 1, n), den |-> n]
        ELSE [num |-> SumOver(sums, 1, n), den |-> w * Cardinality(defined)]

\* the dict built for one group
EpisodeBurst(series, group) ==
    LET x == ValueColumn(series)
        n == Len(group)
        w == Max(MinWindow, Len(series) \div WindowDivisor)
        burst_values == [j \in 1..n |-> x[group[j]]]
    IN  [start_time |-> series[group[1]].index,
         end_time |-> series[group[n]].index,
         duration |-> n,
         peak_value |-> MaxOver(burst_values, 1, n),
         total_excess |-> [num |-> ExcessNum(series, group, n, w), den |-> w * n],
         intensity |-> calculate_burst_strength(burst_values),
         baseline |-> GroupBaseline(series, group, w)]

RECURSIVE InsertByStrength(_, _)
InsertByStrength(sorted, b) ==
    IF sorted = <<>> THEN <<b>>
    ELSE IF CompareStrength(sorted[Len(sorted)].intensity, b.intensity) >= 0
         THEN Append(sorted, b)
    ELSE Append(InsertByStrength(SubSeq(sorted, 1, Len(sorted) - 1), b), sorted[Len(sorted)])

\* bursts.sort(key=lambda x: x['intensity'], reverse=True) of detect_bursts
RECURSIVE SortByStrength(_)
SortByStrength(bs) ==
    IF bs = <<>> THEN <<>>
    ELSE InsertByStrength(SortByStrength(SubSeq(bs, 1, Len(bs) - 1)), bs[Len(bs)])

\* 2.0 / sensitivity raises ZeroDivisionError once the length check is passed
SeriesRaises(series, s) == Len(series) >= MinSeriesPoints /\ s = 0

\* the call ends at a return of the body or in the except clause
SeriesOutcome(series, s) == IF SeriesRaises(series, s) THEN "except" ELSE "return"

detect_bursts(series, s) ==
    IF Len(series) < MinSeriesPoints THEN <<>>
    ELSE IF s = 0 THEN <<>>                  \* ZeroDivisionError, caught: return []
    ELSE LET groups == BurstGroups(series, s)
         IN  SortByStrength([k \in 1..Len(groups) |-> EpisodeBurst(series, groups[k])])

----------------------------------------------------------------------------
(* validate_burst_parameters, src/utils/burst_detection.py *)
(* The Series holds floats: a value is NaN or the rational num/den.         *)

MaxSensitivity == 100                 \* if sensitivity > 10

\* data.isna().all(): True for the empty Series
AllMissing(series) == \A i \in DOMAIN series : series[i].value = NaN

\* (data < 0).any(): a comparison with NaN is False
AnyNegative(series) ==
    \E i \in DOMAIN series : series[i].value # NaN /\ series[i].value.num < 0

\* mutant: the two sensitivity checks made before the length check
validate_burst_parameters_sensitivity_first(series, s) ==
    IF s <= 0 THEN <<FALSE, "Sensitivity must be positive">>
    ELSE IF s > MaxSensitivity THEN <<FALSE, "Sensitivity too high (maximum 10)">>
    ELSE IF Len(series) < 3
         THEN <<FALSE, "Insufficient data points for burst detection (minimum 3 required)">>
    ELSE IF AllMissing(series) THEN <<FALSE, "All data points are missing">>
    ELSE IF AnyNegative(series)
         THEN <<FALSE, "Negative values not supported in burst detection">>
    ELSE <<TRUE, "">>

\* the tuple (is_valid, error_message)
validate_burst_parameters(series, s) ==
    IF Len(series) < 3
    THEN <<FALSE, "Insufficient data points for burst detection (minimum 3 required)">>
    ELSE IF s <= 0 THEN <<FALSE, "Sensitivity must be positive">>
    ELSE IF s > MaxSensitivity THEN <<FALSE, "Sensitivity too high (maximum 10)">>
    ELSE IF AllMissing(series) THEN <<FALSE, "All data points are missing">>
    ELSE IF AnyNegative(series)
         THEN <<FALSE, "Negative values not supported in burst detection">>
    ELSE <<TRUE, "">>

----------------------------------------------------------------------------
(* calculate_burst_statistics, src/utils/burst_detection.py                *)
(* A burst is a dict; here its duration and its intensity are integers.    *)
(* A mean is the rational num/den and a population std (np.std) is         *)
(* sqrt(var)/n with var = n*Q - S*S.                                       *)

\* burst['duration'] or burst['intensity'] raises KeyError for a dict without the key
StatisticsRaises(bs) ==
    \E i \in DOMAIN bs : ~ ({"duration", "intensity"} \subseteq DOMAIN bs[i])

\* mutant: the first intensity instead of the smallest
MinOver_first(x, lo, hi) == x[lo]

RECURSIVE MinOver(_, _, _)
MinOver(x, lo, hi) ==
    IF lo >= hi THEN x[lo]
    ELSE LET rest == MinOver(x, lo + 1, hi) IN IF x[lo] <= rest THEN x[lo] ELSE rest

\* the dict returned on a list that is empty
EmptyStatistics ==
    [total_bursts |-> 0, average_duration |-> 0, average_intensity |-> 0,
     total_burst_time |-> 0]

\* the dict the try block builds
ComputedStatistics(bs) ==
    LET n == Len(bs)
        durations == [i \in 1..n |-> bs[i].duration]
        intensities == [i \in 1..n |-> bs[i].intensity]
        Sd == SumOver(durations, 1, n)
        Si == SumOver(intensities, 1, n)
    IN  [total_bursts |-> n,
         average_duration |-> [num |-> Sd, den |-> n],
         average_intensity |-> [num |-> Si, den |-> n],
         total_burst_time |-> Sd,
         max_intensity |-> MaxOver(intensities, 1, n),
         min_intensity |-> MinOver(intensities, 1, n),
         std_duration |-> [var |-> n * SumSqOver(durations, 1, n) - Sd * Sd, n |-> n],
         std_intensity |-> [var |-> n * SumSqOver(intensities, 1, n) - Si * Si, n |-> n]]

\* mutant: without the 'if not bursts' guard; np.max of an empty list raises ValueError
calculate_burst_statistics_unguarded(bs) ==
    IF bs = <<>> \/ StatisticsRaises(bs) THEN [total_bursts |-> 0]
    ELSE ComputedStatistics(bs)

calculate_burst_statistics(bs) ==
    IF bs = <<>> THEN EmptyStatistics
    ELSE IF StatisticsRaises(bs) THEN [total_bursts |-> 0]     \* except Exception
    ELSE ComputedStatistics(bs)

\* the call ends at a return of the body or in the except clause
StatisticsOutcome(bs) == IF bs # <<>> /\ StatisticsRaises(bs) THEN "except" ELSE "return"

----------------------------------------------------------------------------
(* Inputs. *)

\* category labels, in lexical order
CategoryOrder == <<"A", "B", "Military">>

CategoryRank(category) == CHOOSE k \in 1..Len(CategoryOrder) : CategoryOrder[k] = category

\* sensitivities in tenths: the slider's mark 0.5, default 1.0 and maximum 2.0, the
\* largest value validate_burst_parameters accepts (10.0), 1.7 and 1.8, and three
\* values outside (0, 10]
Sensitivities == {5, 10, 17, 18, 20, 100, 0, 0 - 10, 110}

DefaultSensitivity == 10              \* value=1.0 of the slider
ValidSensitivity(s) == s > 0 /\ s <= MaxSensitivity

\* the rows (period, category, count) of one category, from a function period -> count
RowsOf(f, category) ==
    {[period |-> p, category |-> category, count |-> f[p]] : p \in DOMAIN f}

\* ORDER BY period, category
RowBefore(r, q) ==
    \/ r.period < q.period
    \/ r.period = q.period /\ CategoryRank(r.category) < CategoryRank(q.category)

OrderByPeriodCategory(rows) ==
    [k \in 1..Cardinality(rows) |->
        CHOOSE r \in rows : Cardinality({q \in rows : RowBefore(q, r)}) = k - 1]

\* every series of one category over a non-empty set of the periods (absent periods
\* are gaps), with every count
SeriesFunctions ==
    UNION {[P -> 0..MaxCount] : P \in (SUBSET (1..NumPeriods)) \ {{}}}

\* a series of len periods, 0 everywhere but for height at pos
Spike(len, pos, height) == [p \in 1..len |-> IF p = pos THEN height ELSE 0]

SpikeFunctions ==
    {Spike(len, pos, height) :
        len \in 2..NumPeriods, pos \in 1..NumPeriods, height \in 1..MaxCount}

SingleCategoryTimelines == {OrderByPeriodCategory(RowsOf(f, "A")) : f \in SeriesFunctions}

TwoCategoryTimelines ==
    {OrderByPeriodCategory(RowsOf(f, "A") \cup RowsOf(g, "B")) :
        f \in SpikeFunctions, g \in SpikeFunctions}

\* the monthly counts of the two concrete scenarios, and a series with three
\* adjacent buckets above their thresholds at sensitivity 10.0
MilitaryCounts == <<10, 11, 9, 10, 52, 12, 10>>
FlatCounts == <<10, 10, 10, 10, 10, 10, 10>>
PlateauCounts == <<0, 2, 3, 3, 2>>

\* a series long enough for len(data) // 10 to exceed 3: 40 buckets, 0 everywhere but
\* for 2, 0, 1 in the middle
LongLength == 4 * WindowDivisor
LongCounts ==
    [p \in 1..LongLength |->
        IF p = LongLength \div 2 - 1 THEN 2 ELSE IF p = LongLength \div 2 + 1 THEN 1 ELSE 0]

ScenarioTimeline(counts) ==
    [p \in 1..Len(counts) |-> [period |-> p, category |-> "Military", count |-> counts[p]]]

Inputs ==
    ((SingleCategoryTimelines \cup TwoCategoryTimelines) \X Sensitivities)
    \cup {<<ScenarioTimeline(MilitaryCounts), DefaultSensitivity>>}
    \cup ({ScenarioTimeline(FlatCounts)} \X Sensitivities)
    \cup {<<ScenarioTimeline(PlateauCounts), MaxSensitivity>>}
    \cup {<<ScenarioTimeline(LongCounts), 18>>}

\* the Series of one category: its counts indexed by period
CategorySeries(df, category) ==
    LET cat_data == SortValuesByPeriod(SelectCategory(df, category))
    IN  [i \in 1..Len(cat_data) |-> [index |-> cat_data[i].period, value |-> cat_data[i].count]]

----------------------------------------------------------------------------
(* Variables a specification does not use keep these values. *)

NULL == [null |-> TRUE]          \* SQL NULL
None == [none |-> TRUE]          \* Python None

NoFilters == [sources |-> {}, start_date |-> None, end_date |-> None, languages |-> {}]

DatabaseIdle == observations = <<>> /\ time_granularity = "month" /\ filters = NoFilters

CallbackIdle == n_clicks = 0 /\ children = "none" /\ store = None

CacheIdle == _cache = <<>> /\ _cache_timestamps = <<>> /\ clock = 0 /\ calls = <<>>

----------------------------------------------------------------------------
(* Timeline aggregation: the SQL of fetch_burst_timeline_data,              *)
(* src/tabs/burstiness.py, and of fetch_timeline_data,                      *)
(* src/database/data_fetchers.py.  A publication_date is a calendar date or *)
(* NULL; a period of the result is the day number of a date, counted from   *)
(* Epoch.  An HLTP label "A - x" is kept as its parts <<"A", "x">>.          *)

Date(y, m, d) == [year |-> y, month |-> m, day |-> d]

IsLeap(y) == (y % 4 = 0 /\ y % 100 # 0) \/ y % 400 = 0

DaysInMonth(y, m) ==
    IF m = 2 THEN (IF IsLeap(y) THEN 29 ELSE 28)
    ELSE IF m \in {4, 6, 9, 11} THEN 30 ELSE 31

Epoch == Date(2019, 1, 1)        \* a Tuesday

DaysBeforeYear(y) ==
    (y - Epoch.year) * 365 + Cardinality({k \in Epoch.year..(y - 1) : IsLeap(k)})

DaysBeforeMonth(y, m) == SumOver([k \in 1..12 |-> DaysInMonth(y, k)], 1, m - 1)

\* the number of days from Epoch to d
Ordinal(d) == DaysBeforeYear(d.year) + DaysBeforeMonth(d.year, d.month) + d.day - 1

\* 0 for Monday .. 6 for Sunday
Weekday(d) == (Ordinal(d) + 1) % 7

\* the date k <= 6 days before d
MinusDays(d, k) ==
    IF d.day > k THEN Date(d.year, d.month, d.day - k)
    ELSE LET y == IF d.month = 1 THEN d.year - 1 ELSE d.year
             m == IF d.month = 1 THEN 12 ELSE d.month - 1
         IN  Date(y, m, DaysInMonth(y, m) + d.day - k)

\* PostgreSQL DATE_TRUNC(unit, timestamp) on a date; a week starts on Monday
DATE_TRUNC(unit, d) ==
    CASE unit = "day" -> d
      [] unit = "week" -> MinusDays(d, Weekday(d))
      [] unit = "month" -> Date(d.year, d.month, 1)
      [] unit = "quarter" -> Date(d.year, 3 * ((d.month - 1) \div 3) + 1, 1)
      [] unit = "year" -> Date(d.year, 1, 1)

\* SPLIT_PART(string, ' - ', n)
SPLIT_PART(hltp, n) == IF n <= Len(hltp.parts) THEN hltp.parts[n] ELSE ""

\* dict.get(key, default)
DictGet(dict, key, default) == IF key \in DOMAIN dict THEN dict[key] ELSE default

BurstDateTruncMap ==
    [day |-> "day", week |-> "week", month |-> "month", quarter |-> "quarter", year |-> "year"]

TimelineDateTruncMap == [day |-> "day", week |-> "week", month |-> "month", year |-> "year"]

\* r.publication_date >= '2020-01-01'
CutoffDate == Date(2020, 1, 1)

\* the WHERE clause of fetch_burst_timeline_data
BurstWhere(r) ==
    /\ r.is_relevant
    /\ r.HLTP # NULL
    /\ r.publication_date # NULL
    /\ Ordinal(r.publication_date) >= Ordinal(CutoffDate)

\* the WHERE clause of fetch_timeline_data with the filters f added
TimelineWhere(r, f) ==
    /\ r.is_relevant
    /\ r.HLTP # NULL
    /\ r.publication_date # NULL
    /\ (f.sources # {} /\ "ALL" \notin f.sources) => r.original_source \in f.sources
    /\ f.start_date # None => Ordinal(r.publication_date) >= Ordinal(f.start_date)
    /\ f.end_date # None => Ordinal(r.publication_date) <= Ordinal(f.end_date)
    /\ (f.languages # {} /\ "ALL" \notin f.languages) => r.language \in f.languages

\* SELECT DATE_TRUNC(unit, publication_date) AS period, SPLIT_PART(HLTP, ' - ', 1) AS
\* category, COUNT(*) AS count ... GROUP BY 1, 2 ORDER BY period, category
GroupByPeriodCategory(rows, unit) ==
    LET key(r) == <<Ordinal(DATE_TRUNC(unit, r.publication_date)), SPLIT_PART(r.HLTP, 1)>>
        keys == {key(rows[i]) : i \in DOMAIN rows}
    IN  OrderByPeriodCategory(
            {[period |-> k[1], category |-> k[2],
              count |-> Cardinality({i \in DOMAIN rows : key(rows[i]) = k})] : k \in keys})

\* fetch_burst_timeline_data; connected is FALSE when get_engine, connect or the query
\* raises
fetch_burst_timeline_data(rows, analysis_type, granularity, connected) ==
    LET date_trunc == DictGet(BurstDateTruncMap, granularity, "month")
        selected == SelectSeq(rows, BurstWhere)
    IN  IF ~connected THEN <<>>
        ELSE IF analysis_type = "taxonomy" THEN GroupByPeriodCategory(selected, date_trunc)
        ELSE GroupByPeriodCategory(selected, date_trunc)

fetch_timeline_data(rows, f, granularity, connected) ==
    LET date_trunc == DictGet(TimelineDateTruncMap, granularity, "month")
        selected == SelectSeq(rows, LAMBDA r : TimelineWhere(r, f))
    IN  IF ~connected THEN <<>> ELSE GroupByPeriodCategory(selected, date_trunc)

----------------------------------------------------------------------------
(* The state machine: one call of a detector on the inputs. *)

Init ==
    /\ \E in \in Inputs : timeline_df = in[1] /\ sensitivity = in[2]
    /\ pc = "ready"
    /\ data = <<>>
    /\ bursts = <<>>
    /\ outcome = "none"
    /\ validation = <<>>
    /\ stats = <<>>
    /\ DatabaseIdle /\ CallbackIdle /\ CacheIdle

DetectBurstsInTimeline ==
    /\ pc = "ready"
    /\ bursts' = detect_bursts_in_timeline(timeline_df, sensitivity)
    /\ outcome' = TimelineOutcome(timeline_df, sensitivity)
    /\ pc' = "detect_bursts_in_timeline"
    /\ timeline_df' = TimelineAfterCall(timeline_df, sensitivity)
    /\ UNCHANGED <<sensitivity, data, validation, stats>>
    /\ UNCHANGED <<databaseVars, callbackVars, cacheVars>>

DetectBursts(category) ==
    /\ pc = "ready"
    /\ data' = CategorySeries(timeline_df, category)
    /\ bursts' = detect_bursts(data', sensitivity)
    /\ outcome' = SeriesOutcome(data', sensitivity)
    /\ pc' = "detect_bursts"
    /\ UNCHANGED <<timeline_df, sensitivity, validation, stats>>
    /\ UNCHANGED <<databaseVars, callbackVars, cacheVars>>

Next ==
    \/ DetectBurstsInTimeline
    \/ \E category \in Range(CategoryColumn(timeline_df)) : DetectBursts(category)

Spec == Init /\ [][Next]_vars

----------------------------------------------------------------------------
(* One call of detect_bursts_in_timeline on a timeline of two categories   *)
(* where one period of category B may be a str.                            *)

\* the rows of a category with the period at pos kept as a str
RowsWithStrPeriod(f, category, pos) ==
    {IF p = pos
     THEN [period |-> p, category |-> category, count |-> f[p], period_is_str |-> TRUE]
     ELSE [period |-> p, category |-> category, count |-> f[p]] : p \in DOMAIN f}

MixedTimelines ==
    {OrderByPeriodCategory(RowsOf(f, "A") \cup RowsWithStrPeriod(g, "B", pos)) :
        f \in SpikeFunctions, g \in SpikeFunctions, pos \in 0..1}

IsolationInit ==
    /\ timeline_df \in MixedTimelines
    /\ sensitivity \in Sensitivities
    /\ pc = "ready"
    /\ data = <<>>
    /\ bursts = <<>>
    /\ outcome = "none"
    /\ validation = <<>>
    /\ stats = <<>>
    /\ DatabaseIdle /\ CallbackIdle /\ CacheIdle

IsolationNext == DetectBurstsInTimeline

IsolationSpec == IsolationInit /\ [][IsolationNext]_vars

----------------------------------------------------------------------------
(* One call of validate_burst_parameters on a Series that may hold missing *)
(* and negative values.                                                    *)

\* a missing value, -1.0, 0.0 and 1.0
ValidationValues == {NaN} \cup {[num |-> v, den |-> 1] : v \in {0 - 1, 0, 1}}

ValidationSeries ==
    UNION {{[i \in 1..n |-> [index |-> i, value |-> v[i]]] : v \in [1..n -> ValidationValues]} :
              n \in 0..MaxSeriesLen}

ValidateInit ==
    /\ data \in ValidationSeries
    /\ sensitivity \in Sensitivities
    /\ pc = "ready"
    /\ timeline_df = <<>>
    /\ bursts = <<>>
    /\ outcome = "none"
    /\ validation = <<>>
    /\ stats = <<>>
    /\ DatabaseIdle /\ CallbackIdle /\ CacheIdle

ValidateBurstParameters ==
    /\ pc = "ready"
    /\ validation' = validate_burst_parameters(data, sensitivity)
    /\ outcome' = "return"
    /\ pc' = "validate_burst_parameters"
    /\ UNCHANGED <<timeline_df, sensitivity, data, bursts, stats>>
    /\ UNCHANGED <<databaseVars, callbackVars, cacheVars>>

ValidateNext == ValidateBurstParameters

ValidateSpec == ValidateInit /\ [][ValidateNext]_vars

----------------------------------------------------------------------------
(* One call of calculate_burst_statistics on a list of bursts, some of     *)
(* which may lack the key 'intensity'.                                     *)

StatisticsBursts ==
    {[duration |-> d, intensity |-> x] : d \in 1..MaxDuration, x \in 0..MaxIntensity}
    \cup {[duration |-> 1]}

StatisticsInit ==
    /\ \E n \in 0..MaxBursts : bursts \in [1..n -> StatisticsBursts]
    /\ sensitivity = DefaultSensitivity
    /\ pc = "ready"
    /\ timeline_df = <<>>
    /\ data = <<>>
    /\ outcome = "none"
    /\ validation = <<>>
    /\ stats = <<>>
    /\ DatabaseIdle /\ CallbackIdle /\ CacheIdle

CalculateBurstStatistics ==
    /\ pc = "ready"
    /\ stats' = calculate_burst_statistics(bursts)
    /\ outcome' = StatisticsOutcome(bursts)
    /\ pc' = "calculate_burst_statistics"
    /\ UNCHANGED <<timeline_df, sensitivity, data, bursts, validation>>
    /\ UNCHANGED <<databaseVars, callbackVars, cacheVars>>

StatisticsNext == CalculateBurstStatistics

StatisticsSpec == StatisticsInit /\ [][StatisticsNext]_vars

----------------------------------------------------------------------------
(* One call of a fetcher on a database of a few rows: rows on a Wednesday   *)
(* in January, a Saturday in February and a Sunday in May 2020, a row of    *)
(* 2019, a row without a date, a row of a second category, a row that is   *)
(* not relevant and a row without a label.                                  *)

MaxPerRow == 2

Row(date, hltp, relevant, source, language) ==
    [publication_date |-> date, HLTP |-> hltp, is_relevant |-> relevant,
     original_source |-> source, language |-> language]

Label(top) == [parts |-> <<top, "x">>]

RepeatedRows ==
    <<Row(Date(2020, 1, 1), Label("A"), TRUE, "tass", "ru"),
      Row(Date(2020, 2, 15), Label("A"), TRUE, "ria", "en"),
      Row(Date(2020, 5, 31), Label("A"), TRUE, "tass", "ru")>>

SingleRows ==
    <<Row(Date(2019, 12, 31), Label("A"), TRUE, "tass", "ru"),
      Row(NULL, Label("A"), TRUE, "tass", "ru"),
      Row(Date(2020, 2, 15), Label("B"), TRUE, "tass", "en"),
      Row(Date(2020, 1, 1), Label("A"), FALSE, "ria", "ru"),
      Row(Date(2020, 1, 1), NULL, TRUE, "ria", "ru")>>

\* n copies of row
Copies(row, n) == [i \in 1..n |-> row]

ObservationLists ==
    {Copies(RepeatedRows[1], m[1]) \o Copies(RepeatedRows[2], m[2])
        \o Copies(RepeatedRows[3], m[3])
        \o SelectSeq(SingleRows, LAMBDA row : row \in chosen) :
            m \in [1..3 -> 0..MaxPerRow], chosen \in SUBSET Range(SingleRows)}

Granularities == {"day", "week", "month", "quarter", "year"}

AnalysisTypes == {"taxonomy", "keywords", "entities", "all"}

FilterChoices ==
    {NoFilters,
     [NoFilters EXCEPT !.sources = {"tass"}],
     [NoFilters EXCEPT !.sources = {"ALL"}, !.languages = {"ru"}],
     [NoFilters EXCEPT !.start_date = Date(2020, 1, 1), !.end_date = Date(2020, 3, 31)]}

AggregationInit ==
    /\ observations \in ObservationLists
    /\ time_granularity \in Granularities
    /\ filters = NoFilters
    /\ timeline_df = <<>>
    /\ sensitivity = DefaultSensitivity
    /\ pc = "ready"
    /\ data = <<>>
    /\ bursts = <<>>
    /\ outcome = "none"
    /\ validation = <<>>
    /\ stats = <<>>
    /\ CallbackIdle /\ CacheIdle

FetchBurstTimelineData(analysis_type, connected) ==
    /\ pc = "ready"
    /\ timeline_df' = fetch_burst_timeline_data(observations, analysis_type,
                                                 time_granularity, connected)
    /\ outcome' = IF connected THEN "return" ELSE "except"
    /\ pc' = "fetch_burst_timeline_data"
    /\ UNCHANGED <<sensitivity, data, bursts, validation, stats>>
    /\ UNCHANGED <<databaseVars, callbackVars, cacheVars>>

FetchTimelineData(f, connected) ==
    /\ pc = "ready"
    /\ filters' = f
    /\ timeline_df' = fetch_timeline_data(observations, f, time_granularity, connected)
    /\ outcome' = IF connected THEN "return" ELSE "except"
    /\ pc' = "fetch_timeline_data"
    /\ UNCHANGED <<sensitivity, data, bursts, validation, stats>>
    /\ UNCHANGED <<observations, time_granularity, callbackVars, cacheVars>>

AggregationNext ==
    \/ \E analysis_type \in AnalysisTypes, connected \in BOOLEAN :
          FetchBurstTimelineData(analysis_type, connected)
    \/ \E f \in FilterChoices, connected \in BOOLEAN : FetchTimelineData(f, connected)

AggregationSpec == AggregationInit /\ [][AggregationNext]_vars

----------------------------------------------------------------------------
(* The callback analyze_bursts, src/tabs/burstiness.py: one firing on a     *)
(* database as above.  The children it returns are named by their text.     *)

\* the attributes of a Python dict
DictAttributes ==
    {"clear", "copy", "fromkeys", "get", "items", "keys", "pop", "popitem",
     "setdefault", "update", "values"}

\* burst.to_dict() for a burst that is a dict raises AttributeError
ToDictRaises(burst) == "to_dict" \notin DictAttributes

EmptyDict == <<>>

\* timeline_df.to_dict('records')
ToRecords(df) == df

\* the timeline, the bursts and the pair (children, data) analyze_bursts returns
analyze_bursts(clicks, rows, analysis_type, granularity, s, connected) ==
    LET fetched == fetch_burst_timeline_data(rows, analysis_type, granularity, connected)
        burst_results == detect_bursts_in_timeline(fetched, s)
    IN  IF clicks = 0 THEN
            [timeline_df |-> <<>>, bursts |-> <<>>, outcome |-> "return",
             children |-> "", data |-> EmptyDict]
        ELSE IF fetched = <<>> THEN
            [timeline_df |-> fetched, bursts |-> <<>>, outcome |-> "return",
             children |-> "No temporal data found for burst analysis.", data |-> EmptyDict]
        ELSE IF burst_results = <<>> THEN
            [timeline_df |-> fetched, bursts |-> burst_results, outcome |-> "return",
             children |-> "No significant bursts detected. Try adjusting the sensitivity.",
             data |-> EmptyDict]
        ELSE IF \E i \in DOMAIN burst_results : ToDictRaises(burst_results[i]) THEN
            [timeline_df |-> fetched, bursts |-> burst_results, outcome |-> "except",
             children |-> "Error analyzing bursts", data |-> EmptyDict]
        ELSE
            [timeline_df |-> fetched, bursts |-> burst_results, outcome |-> "return",
             children |-> "results",
             data |-> [analysis_type |-> analysis_type, time_granularity |-> granularity,
                       sensitivity |-> s, bursts |-> burst_results,
                       timeline_data |-> ToRecords(fetched)]]

\* positions of the slider: 0.1 to 2.0 in steps of 0.1
SliderValues == {10, 18, 20}

AnalyzeInit ==
    /\ observations \in ObservationLists
    /\ time_granularity \in Granularities
    /\ sensitivity \in SliderValues
    /\ n_clicks \in 0..1
    /\ children = "none"
    /\ store = None
    /\ filters = NoFilters
    /\ timeline_df = <<>>
    /\ pc = "ready"
    /\ data = <<>>
    /\ bursts = <<>>
    /\ outcome = "none"
    /\ validation = <<>>
    /\ stats = <<>>
    /\ CacheIdle

AnalyzeBursts(analysis_type, connected) ==
    /\ pc = "ready"
    /\ LET returned == analyze_bursts(n_clicks, observations, analysis_type,
                                      time_granularity, sensitivity, connected)
       IN  /\ timeline_df' = returned.timeline_df
           /\ bursts' = returned.bursts
           /\ outcome' = returned.outcome
           /\ children' = returned.children
           /\ store' = returned.data
    /\ pc' = "analyze_bursts"
    /\ UNCHANGED <<sensitivity, data, validation, stats, n_clicks>>
    /\ UNCHANGED <<databaseVars, cacheVars>>

AnalyzeNext ==
    \E analysis_type \in AnalysisTypes, connected \in BOOLEAN :
        AnalyzeBursts(analysis_type, connected)

AnalyzeSpec == AnalyzeInit /\ [][AnalyzeNext]_vars

----------------------------------------------------------------------------
(* The result cache, src/utils/cache.py.  _cache and _cache_timestamps are  *)
(* functions from cache keys to results and to times.  A string is the      *)
(* sequence of its characters.  The result of a cached function tells the   *)
(* call that computed it: its function, its arguments and the time.         *)

Timeout == 2                     \* the timeout given to cache_result, in seconds
MaxTicks == 3                    \* the seconds that pass in a behaviour

\* time.time() when the program starts: later than any timeout after 1970
StartTime == Timeout

MaxClock == StartTime + MaxTicks

CachedFunctions == {"f", "g"}

ArgumentLists == {<<1>>, <<2>>}

DigitChars == <<"1", "2", "3", "4", "5", "6", "7", "8", "9">>

\* str(args) for a tuple of one small integer, "(1,)", followed by str(kwargs) for no
\* keyword arguments, "{}"
StrArgsKwargs(args) == <<"(", DigitChars[args[1]], ",", ")">> \o <<"{", "}">>

CharCodes == <<"(", ")", ",", "{", "}">> \o DigitChars

Ord(char) == CHOOSE k \in DOMAIN CharCodes : CharCodes[k] = char

\* hash(string): a number determined by the characters
RECURSIVE Hash(_)
Hash(string) ==
    IF string = <<>> THEN 0
    ELSE (31 * Hash(SubSeq(string, 1, Len(string) - 1)) + Ord(string[Len(string)])) % 65536

\* f"{func.__name__}_{hash(str(args) + str(kwargs))}"
CacheKey(func, args) == <<func, Hash(StrArgsKwargs(args))>>

\* what func(*args) returns when it runs at time now
FuncResult(func, args, now) == [func |-> func, args |-> args, computed_at |-> now]

\* dict.get(key, default)
TimestampGet(timestamps, key, default) ==
    IF key \in DOMAIN timestamps THEN timestamps[key] ELSE default

\* d[key] = value
SetItem(d, key, value) == [k \in DOMAIN d \cup {key} |-> IF k = key THEN value ELSE d[k]]

\* mutant: a hit at an age of exactly timeout, time.time() - timestamp <= timeout
IsFresh_inclusive(timestamps, key, now) ==
    now - TimestampGet(timestamps, key, 0) <= Timeout

\* time.time() - timestamp < timeout
IsFresh(timestamps, key, now) == now - TimestampGet(timestamps, key, 0) < Timeout

\* one call of wrapper(*args) that nothing interleaves with.  The call starts at time
\* now; func, when it is executed, takes duration seconds and raises if raises is
\* TRUE.  Gives the two dicts and the time after the call, whether func was executed,
\* and what the call returned.
wrapper(cache, timestamps, now, func, args, duration, raises) ==
    LET cache_key == CacheKey(func, args)
        result == FuncResult(func, args, now)
    IN  IF cache_key \in DOMAIN cache /\ IsFresh(timestamps, cache_key, now)
        THEN [cache |-> cache, timestamps |-> timestamps, now |-> now,
              executed |-> FALSE, outcome |-> "return", returned |-> cache[cache_key]]
        ELSE IF raises
        THEN [cache |-> cache, timestamps |-> timestamps, now |-> now + duration,
              executed |-> TRUE, outcome |-> "raise", returned |-> None]
        ELSE [cache |-> SetItem(cache, cache_key, result),
              timestamps |-> SetItem(timestamps, cache_key, now + duration),
              now |-> now + duration,
              executed |-> TRUE, outcome |-> "return", returned |-> result]

\* mutant: clear_cache without _cache_timestamps.clear()
clear_cache_values_only(cache, timestamps) == [cache |-> <<>>, timestamps |-> timestamps]

\* clear_cache that nothing interleaves with
clear_cache(cache, timestamps) == [cache |-> <<>>, timestamps |-> <<>>]

\* min and max of the values of a dict
MinValue(d) == CHOOSE v \in Range(d) : \A u \in Range(d) : v <= u
MaxValue(d) == CHOOSE v \in Range(d) : \A u \in Range(d) : v >= u

\* get_cache_stats, without memory_usage_mb
get_cache_stats(cache, timestamps) ==
    [total_entries |-> Cardinality(DOMAIN cache),
     oldest_entry |-> IF timestamps # <<>> THEN [value |-> MinValue(timestamps)] ELSE None,
     newest_entry |-> IF timestamps # <<>> THEN [value |-> MaxValue(timestamps)] ELSE None]

(* Calls one after the other: each call runs from its first line to its    *)
(* return before the next one starts; calls[1] is the call that returned    *)
(* last, with its number in the series and, for clear_cache, the keys it    *)
(* removed and what get_cache_stats gives after it.                         *)

MaxCalls == 4

NoCall == [op |-> "none", number |-> 0]

CacheInit ==
    /\ _cache = <<>>
    /\ _cache_timestamps = <<>>
    /\ clock = StartTime
    /\ calls = <<NoCall>>
    /\ timeline_df = <<>>
    /\ sensitivity = DefaultSensitivity
    /\ pc = "ready"
    /\ data = <<>>
    /\ bursts = <<>>
    /\ outcome = "none"
    /\ validation = <<>>
    /\ stats = <<>>
    /\ DatabaseIdle /\ CallbackIdle

CallCached(func, args, duration, raises) ==
    /\ clock + duration <= MaxClock
    /\ calls[1].number < MaxCalls
    /\ LET after == wrapper(_cache, _cache_timestamps, clock, func, args, duration, raises)
       IN  /\ _cache' = after.cache
           /\ _cache_timestamps' = after.timestamps
           /\ clock' = after.now
           /\ calls' = <<[op |-> "wrapper", number |-> calls[1].number + 1,
                          func |-> func, args |-> args,
                          executed |-> after.executed, outcome |-> after.outcome,
                          returned |-> after.returned]>>
    /\ UNCHANGED <<detectorVars, databaseVars, callbackVars>>

\* handle_clear_cache after a click: clear_cache()
ClearCache ==
    /\ calls[1].number < MaxCalls
    /\ LET after == clear_cache(_cache, _cache_timestamps)
       IN  /\ _cache' = after.cache
           /\ _cache_timestamps' = after.timestamps
    /\ calls' = <<[op |-> "clear_cache", number |-> calls[1].number + 1,
                   removed |-> DOMAIN _cache,
                   stats |-> get_cache_stats(_cache', _cache_timestamps')]>>
    /\ UNCHANGED <<clock, detectorVars, databaseVars, callbackVars>>

\* a second passes between two calls
Tick ==
    /\ clock < MaxClock
    /\ clock' = clock + 1
    /\ UNCHANGED <<_cache, _cache_timestamps, calls, detectorVars, databaseVars, callbackVars>>

CacheNext ==
    \/ \E func \in CachedFunctions, args \in ArgumentLists, duration \in 0..1,
           raises \in BOOLEAN : CallCached(func, args, duration, raises)
    \/ ClearCache
    \/ Tick

CacheSpec == CacheInit /\ [][CacheNext]_vars

----------------------------------------------------------------------------
(* Calls in two threads of the server.  A thread is idle or at a line of    *)
(* wrapper or of clear_cache; one step of a thread is one line of           *)
(* src/utils/cache.py, each dict operation being atomic.  calls[t] holds    *)
(* the locals of the call of thread t, pc its next line.                    *)

Threads == {1, 2}

\* the cached function the threads call
ThreadedFunctions == {"f"}

Idle == [op |-> "idle"]

ThreadedInit ==
    /\ _cache = <<>>
    /\ _cache_timestamps = <<>>
    /\ clock = StartTime
    /\ calls = [t \in Threads |-> Idle]
    /\ timeline_df = <<>>
    /\ sensitivity = DefaultSensitivity
    /\ pc = "ready"
    /\ data = <<>>
    /\ bursts = <<>>
    /\ outcome = "none"
    /\ validation = <<>>
    /\ stats = <<>>
    /\ DatabaseIdle /\ CallbackIdle

Rest == UNCHANGED <<detectorVars, databaseVars, callbackVars>>

At(t, op, line) == calls[t].op = op /\ calls[t].pc = line

\* line 33-35: the call starts and computes cache_key
WrapperBegin(t, func, args) ==
    /\ calls[t] = Idle
    /\ calls' = [calls EXCEPT ![t] = [op |-> "wrapper", pc |-> 38, func |-> func,
                                        args |-> args, cache_key |-> CacheKey(func, args)]]
    /\ UNCHANGED <<_cache, _cache_timestamps, clock>>
    /\ Rest

\* line 38: if cache_key in _cache
WrapperTestKey(t) ==
    /\ At(t, "wrapper", 38)
    /\ calls' = [calls EXCEPT ![t].pc = IF calls[t].cache_key \in DOMAIN _cache THEN 39 ELSE 45]
    /\ UNCHANGED <<_cache, _cache_timestamps, clock>>
    /\ Rest

\* line 39-40: timestamp = _cache_timestamps.get(cache_key, 0) and the test of its age
WrapperTestAge(t) ==
    /\ At(t, "wrapper", 39)
    /\ calls' = [calls EXCEPT ![t].pc = IF IsFresh(_cache_timestamps, calls[t].cache_key, clock)
                                         THEN 42 ELSE 45]
    /\ UNCHANGED <<_cache, _cache_timestamps, clock>>
    /\ Rest

\* line 42: return _cache[cache_key], a KeyError when the key is gone
WrapperReturnCached(t) ==
    /\ At(t, "wrapper", 42)
    /\ calls' = [calls EXCEPT ![t] = Idle]
    /\ UNCHANGED <<_cache, _cache_timestamps, clock>>
    /\ Rest

\* line 45: result = func(*args, **kwargs); an exception of func ends the call
WrapperExecute(t, raises) ==
    /\ At(t, "wrapper", 45)
    /\ calls' = [calls EXCEPT ![t] =
                    IF raises THEN Idle
                    ELSE [op |-> "wrapper", pc |-> 46, func |-> calls[t].func,
                          args |-> calls[t].args, cache_key |-> calls[t].cache_key,
                          result |-> FuncResult(calls[t].func, calls[t].args, clock)]]
    /\ UNCHANGED <<_cache, _cache_timestamps, clock>>
    /\ Rest

\* line 46: _cache[cache_key] = result
WrapperStoreResult(t) ==
    /\ At(t, "wrapper", 46)
    /\ _cache' = SetItem(_cache, calls[t].cache_key, calls[t].result)
    /\ calls' = [calls EXCEPT ![t].pc = 47]
    /\ UNCHANGED <<_cache_timestamps, clock>>
    /\ Rest

\* line 47-50: _cache_timestamps[cache_key] = time.time(); return result
WrapperStoreTimestamp(t) ==
    /\ At(t, "wrapper", 47)
    /\ _cache_timestamps' = SetItem(_cache_timestamps, calls[t].cache_key, clock)
    /\ calls' = [calls EXCEPT ![t] = Idle]
    /\ UNCHANGED <<_cache, clock>>
    /\ Rest

\* handle_clear_cache calls clear_cache
ClearBegin(t) ==
    /\ calls[t] = Idle
    /\ calls' = [calls EXCEPT ![t] = [op |-> "clear_cache", pc |-> 20]]
    /\ UNCHANGED <<_cache, _cache_timestamps, clock>>
    /\ Rest

\* line 20: _cache.clear()
ClearValues(t) ==
    /\ At(t, "clear_cache", 20)
    /\ _cache' = clear_cache(_cache, _cache_timestamps).cache
    /\ calls' = [calls EXCEPT ![t].pc = 21]
    /\ UNCHANGED <<_cache_timestamps, clock>>
    /\ Rest

\* line 21-22: _cache_timestamps.clear(); return
ClearTimestamps(t) ==
    /\ At(t, "clear_cache", 21)
    /\ _cache_timestamps' = clear_cache(_cache, _cache_timestamps).timestamps
    /\ calls' = [calls EXCEPT ![t] = Idle]
    /\ UNCHANGED <<_cache, clock>>
    /\ Rest

ThreadedNext ==
    \/ \E t \in Threads, func \in ThreadedFunctions, args \in ArgumentLists :
          WrapperBegin(t, func, args)
    \/ \E t \in Threads : WrapperTestKey(t)
    \/ \E t \in Threads : WrapperTestAge(t)
    \/ \E t \in Threads : WrapperReturnCached(t)
    \/ \E t \in Threads, raises \in BOOLEAN : WrapperExecute(t, raises)
    \/ \E t \in Threads : WrapperStoreResult(t)
    \/ \E t \in Threads : WrapperStoreTimestamp(t)
    \/ \E t \in Threads : ClearBegin(t)
    \/ \E t \in Threads : ClearValues(t)
    \/ \E t \in Threads : ClearTimestamps(t)
    \/ Tick

ThreadedSpec == ThreadedInit /\ [][ThreadedNext]_vars

----------------------------------------------------------------------------
(* What the claims speak of, stated on the rows themselves. *)

TimelineRows == Range(timeline_df)

CategoryRows(category) == {r \in TimelineRows : r.category = category}

\* the buckets next to r among the rows of its category, by period
Predecessors(r) ==
    {q \in CategoryRows(r.category) :
        /\ q.period < r.period
        /\ ~ \E m \in CategoryRows(r.category) : q.period < m.period /\ m.period < r.period}

Successors(r) ==
    {q \in CategoryRows(r.category) :
        /\ q.period > r.period
        /\ ~ \E m \in CategoryRows(r.category) : r.period < m.period /\ m.period < q.period}

HasWindow(r) == Predecessors(r) # {} /\ Successors(r) # {}

PredCount(r) == (CHOOSE q \in Predecessors(r) : TRUE).count

SuccCount(r) == (CHOOSE q \in Successors(r) : TRUE).count

\* a + x + b for the three buckets centred at r
WindowSum(r) == PredCount(r) + r.count + SuccCount(r)

\* the sum of the squared deviations from the window's mean, times 9
WindowDeviations(r) ==
    LET S == WindowSum(r)
        dev(v) == (3 * v - S) * (3 * v - S)
    IN  dev(PredCount(r)) + dev(r.count) + dev(SuccCount(r))

\* count > mean + (2/s)*std over the three buckets centred at r, for s > 0 in tenths:
\* with d = count - mean > 0, d^2 > (20/s)^2 * (sum of squared deviations) / 2
AboveThreshold(r, s) ==
    LET D == 3 * r.count - WindowSum(r)
    IN  D > 0 /\ 2 * s * s * D * D > 400 * WindowDeviations(r)

ExpectedFlags(s) ==
    {<<r.category, r.period>> : r \in {q \in TimelineRows : HasWindow(q) /\ AboveThreshold(q, s)}}

FlagSet(bs) == {<<bs[i].category, bs[i].period>> : i \in DOMAIN bs}

TimelineDone == pc = "detect_bursts_in_timeline"

SeriesDone == pc = "detect_bursts"

----------------------------------------------------------------------------
\* C1: for a sensitivity in (0, 10], detect_bursts_in_timeline returns one burst for
\* exactly the buckets that have a bucket of their category on both sides and whose
\* count exceeds rolling mean + (2/s) * rolling std of those three buckets, and no other.
C1_FlaggedIffAboveThreshold ==
    (TimelineDone /\ ValidSensitivity(sensitivity)) =>
        LET expected == ExpectedFlags(sensitivity)
        IN  /\ FlagSet(bursts) = expected
            /\ Len(bursts) = Cardinality(expected)

\* a call that flags one bucket of a category and leaves another with a full window
C1_Witness ==
    /\ TimelineDone /\ ValidSensitivity(sensitivity)
    /\ bursts # <<>>
    /\ \E r \in TimelineRows :
          /\ HasWindow(r) /\ r.count > 0
          /\ r.category = bursts[1].category
          /\ <<r.category, r.period>> \notin FlagSet(bursts)

\* C2: every burst point carries the rolling mean of its own window as baseline and
\* (count - mean) / (std + 1) of that same window as intensity.
C2_BaselineAndIntensity ==
    TimelineDone =>
        \A i \in DOMAIN bursts :
            \E r \in TimelineRows :
                /\ r.category = bursts[i].category /\ r.period = bursts[i].period
                /\ HasWindow(r)
                /\ bursts[i].count = r.count
                /\ bursts[i].baseline = [num |-> WindowSum(r), den |-> 3]
                /\ bursts[i].intensity.dev = 3 * r.count - WindowSum(r)
                /\ 3 * bursts[i].intensity.var = WindowDeviations(r)
                /\ bursts[i].intensity.w = 3
                /\ bursts[i].intensity.plus = 1

\* two bursts with different baselines and different intensities
C2_Witness ==
    /\ TimelineDone /\ ValidSensitivity(sensitivity) /\ Len(bursts) >= 2
    /\ bursts[1].baseline # bursts[2].baseline
    /\ CompareIntensity(bursts[1].intensity, bursts[2].intensity) = 1

\* C3: the buckets flagged at a sensitivity s1 are flagged at every larger
\* sensitivity s2 <= 10.
C3_MonotonicSensitivity ==
    (TimelineDone /\ ValidSensitivity(sensitivity)) =>
        \A s1 \in Sensitivities :
            (ValidSensitivity(s1) /\ s1 < sensitivity) =>
                /\ FlagSet(detect_bursts_in_timeline(timeline_df, s1)) \subseteq FlagSet(bursts)
                /\ Len(detect_bursts_in_timeline(timeline_df, s1)) <= Len(bursts)

\* a timeline with a bucket flagged at 1.8 and more buckets flagged at 10.0
C3_Witness ==
    /\ TimelineDone /\ sensitivity = MaxSensitivity
    /\ detect_bursts_in_timeline(timeline_df, 18) # <<>>
    /\ Len(detect_bursts_in_timeline(timeline_df, 18)) < Len(bursts)

\* C4: a category whose buckets all have the same count yields no burst, at every
\* sensitivity, in either detector.
C4_FlatSeriesNoBursts ==
    /\ TimelineDone =>
          \A i \in DOMAIN bursts :
              \E r, q \in CategoryRows(bursts[i].category) : r.count # q.count
    /\ (SeriesDone /\ \A i, j \in DOMAIN data : data[i].value = data[j].value) =>
          bursts = <<>>

\* the flat scenario at the largest sensitivity
C4_Witness ==
    /\ TimelineDone
    /\ timeline_df = ScenarioTimeline(FlatCounts)
    /\ sensitivity = MaxSensitivity
    /\ bursts = <<>>

\* C5: the window a bucket is tested against contains the bucket itself; in the
\* scenario [10,11,9,10,52,12,10] at sensitivity 1.0 the bucket with count 52 is not
\* flagged and no burst is returned.
C5_OwnCountInWindow ==
    /\ (pc # "ready" /\ timeline_df = ScenarioTimeline(MilitaryCounts)
            /\ sensitivity = DefaultSensitivity) => bursts = <<>>
    /\ TimelineDone =>
          \A i \in DOMAIN bursts :
              \E r \in TimelineRows :
                  /\ r.category = bursts[i].category /\ r.period = bursts[i].period
                  /\ HasWindow(r)
                  /\ bursts[i].baseline.num - bursts[i].count = PredCount(r) + SuccCount(r)

\* the scenario has been analysed
C5_Witness ==
    /\ TimelineDone
    /\ timeline_df = ScenarioTimeline(MilitaryCounts)
    /\ sensitivity = DefaultSensitivity
    /\ bursts = <<>>

----------------------------------------------------------------------------
(* Episodes of detect_bursts, stated on the Series. *)

\* the positions of data the mask flags
FlaggedPositions == {i \in DOMAIN data : burst_mask(data, i, sensitivity)}

\* the maximal runs lo..hi within a set F of positions
MaximalRunsOf(F) ==
    {run \in F \X F :
        /\ run[1] <= run[2]
        /\ \A i \in run[1]..run[2] : i \in F
        /\ (run[1] - 1) \notin F
        /\ (run[2] + 1) \notin F}

\* the positions an episode covers
EpisodePositions(b) == {i \in DOMAIN data : b.start_time <= data[i].index /\ data[i].index <= b.end_time}

\* the mask is walked: the series is long enough and 2.0 / sensitivity is defined
MaskWalked == SeriesDone /\ Len(data) >= MinSeriesPoints /\ sensitivity # 0

\* C6: every maximal run of flagged positions is exactly one burst, from the run's
\* first to its last position and with the run's length as duration; the bursts are
\* disjoint and cover the flagged positions.
C6_EpisodesAreMaximalRuns ==
    MaskWalked =>
        LET F == FlaggedPositions
            runs == MaximalRunsOf(F)
            covered == [k \in DOMAIN bursts |-> EpisodePositions(bursts[k])]
        IN  /\ {<<bursts[k].start_time, bursts[k].end_time, bursts[k].duration>> :
                   k \in DOMAIN bursts}
                 = {<<data[run[1]].index, data[run[2]].index, run[2] - run[1] + 1>> : run \in runs}
            /\ Len(bursts) = Cardinality(runs)
            /\ \A k, m \in DOMAIN bursts : k # m => covered[k] \cap covered[m] = {}
            /\ UNION {covered[k] : k \in DOMAIN bursts} = F

\* three adjacent flagged positions returned as one burst of duration 3
C6_Witness ==
    /\ MaskWalked /\ ValidSensitivity(sensitivity)
    /\ Len(bursts) = 1
    /\ bursts[1].duration = 3
    /\ Cardinality(FlaggedPositions) = 3

\* C9: total_excess of an episode is the sum over its points of count minus the
\* rolling mean of the point's own window; every point of an episode has one.
C9_TotalExcess ==
    MaskWalked =>
        \A k \in DOMAIN bursts :
            LET P == EpisodePositions(bursts[k])
                w == Max(3, Len(data) \div 10)
                lo(i) == i - w \div 2
                hi(i) == i + (w - 1) \div 2
                points == SelectSeq([i \in DOMAIN data |-> i], LAMBDA i : i \in P)
                terms == [m \in DOMAIN points |->
                             w * data[points[m]].value
                               - SumOver(ValueColumn(data), lo(points[m]), hi(points[m]))]
            IN  /\ \A i \in P : 1 <= lo(i) /\ hi(i) <= Len(data)
                /\ w * bursts[k].total_excess.num
                     = bursts[k].total_excess.den * SumOver(terms, 1, Len(points))

\* an episode of two points with a positive total excess
C9_Witness ==
    /\ MaskWalked /\ ValidSensitivity(sensitivity)
    /\ \E k \in DOMAIN bursts : bursts[k].duration = 2 /\ bursts[k].total_excess.num > 0

----------------------------------------------------------------------------
\* C7: the returned list is ordered by intensity descending, and bursts of equal
\* intensity are ordered by period ascending and then by category in lexical order.
C7_RankingWithTieBreak ==
    (TimelineDone /\ ValidSensitivity(sensitivity)) =>
        \A i, j \in DOMAIN bursts :
            i < j =>
                \/ CompareIntensity(bursts[i].intensity, bursts[j].intensity) = 1
                \/ /\ CompareIntensity(bursts[i].intensity, bursts[j].intensity) = 0
                   /\ \/ bursts[i].period < bursts[j].period
                      \/ /\ bursts[i].period = bursts[j].period
                         /\ CategoryRank(bursts[i].category) < CategoryRank(bursts[j].category)

\* the intensity (count - rolling_mean) / (rolling_std + 1) of position i of data
PointIntensityAt(i) ==
    LET x == ValueColumn(data)
        w == Max(MinWindow, Len(data) \div WindowDivisor)
    IN  PointIntensity(x[i], rolling_mean(x, i, w), rolling_std(x, i, w))

\* a strength and a point intensity are the same real number.  With P, S, n, V of
\* the strength and D, w, var of the point intensity, c = w*(w-1):
\*   P*((n-1)*S + sqrt(n*(n-1)*V)) / ((n-1)*S^2)  =  D*c / (w*(sqrt(var*c) + c))
\* A strength of 0 equals only a point intensity of 0.  Otherwise both are positive,
\* and 1 + sqrt(t) + sqrt(v) + sqrt(t*v) is rational only if sqrt(t) and sqrt(v) are.
StrengthEqualsPointIntensity(strength, point) ==
    IF strength.excess = 0 THEN point.dev = 0
    ELSE LET c == point.w * (point.w - 1)
             W == strength.n * (strength.n - 1) * strength.var
             U == point.var * c
         IN  /\ IsSquare(W)
             /\ IsSquare(U)
             /\ strength.excess * ((strength.n - 1) * strength.sum + ISqrt(W))
                    * point.w * (ISqrt(U) + point.plus * c)
                  = point.dev * c * (strength.n - 1) * strength.sum * strength.sum

\* C8: the intensity of an episode is the largest point intensity
\* (count - rolling_mean) / (rolling_std + 1) of the flagged points merged into it.
C8_EpisodeIntensityIsMaxPoint ==
    (MaskWalked /\ ValidSensitivity(sensitivity)) =>
        \A k \in DOMAIN bursts :
            \E i \in EpisodePositions(bursts[k]) :
                /\ \A j \in EpisodePositions(bursts[k]) :
                       CompareIntensity(PointIntensityAt(i), PointIntensityAt(j)) >= 0
                /\ StrengthEqualsPointIntensity(bursts[k].intensity, PointIntensityAt(i))

\* the rows of the timeline with a count of 0 added for every period a category
\* lacks between its first and its last period
ZeroFilled(df) ==
    LET rows == Range(df)
        periods(c) == {r.period : r \in {q \in rows : q.category = c}}
        last == CHOOSE p \in {r.period : r \in rows} : \A r \in rows : r.period <= p
        missing == {[period |-> p, category |-> c, count |-> 0] :
                        c \in {r.category : r \in rows}, p \in 1..last}
    IN  OrderByPeriodCategory(
            rows \cup {m \in missing :
                          /\ m.period \notin periods(m.category)
                          /\ \E lo, hi \in periods(m.category) : lo < m.period /\ m.period < hi})

\* C10: a series with its empty periods absent gives the same flagged periods as
\* the same series with those periods present with count 0.
C10_GapRobustness ==
    (TimelineDone /\ ValidSensitivity(sensitivity)) =>
        FlagSet(bursts) = FlagSet(detect_bursts_in_timeline(ZeroFilled(timeline_df), sensitivity))

----------------------------------------------------------------------------
\* the first or the last bucket of a category of at least 3 buckets
IsBoundary(r) ==
    /\ Cardinality(CategoryRows(r.category)) >= MinTimelinePoints
    /\ ~ HasWindow(r)

\* the count of the one bucket next to a boundary bucket
NeighbourCount(r) == IF Predecessors(r) # {} THEN PredCount(r) ELSE SuccCount(r)

\* count > mean + (2/s)*std over the window shrunk to the boundary bucket and its
\* neighbour, for s > 0 in tenths: with e = count - neighbour the mean is
\* count - e/2 and std^2 = e^2/2, so e/2 > (20/s)*sqrt(e^2/2)
AboveShrunkThreshold(r, s) ==
    LET e == r.count - NeighbourCount(r)
    IN  e > 0 /\ s * s * e * e > 800 * e * e

\* C11: in a category of at least 3 buckets the first and the last bucket are tested
\* against the mean and std of the window shrunk to the buckets that exist, and a
\* boundary bucket above mean + (2/s)*std of that window is returned as a burst.
C11_BoundaryShrunkWindow ==
    (TimelineDone /\ ValidSensitivity(sensitivity)) =>
        \A r \in TimelineRows :
            (IsBoundary(r) /\ AboveShrunkThreshold(r, sensitivity)) =>
                <<r.category, r.period>> \in FlagSet(bursts)

\* the timeline without the rows of one category
WithoutCategory(df, category) == SelectSeq(df, LAMBDA row : row.category # category)

\* C12: a series yields no burst for want of data exactly when it has fewer than 3
\* buckets: a category of fewer than 3 buckets yields no burst and leaves the bursts
\* of the other categories as they are without it, and a series of 3 or more buckets
\* is analysed by detect_bursts_in_timeline and by detect_bursts, so a bucket of it
\* that is above its threshold yields a burst.
C12_MinimumData ==
    /\ (TimelineDone /\ ValidSensitivity(sensitivity)) =>
          /\ \A c \in Range(CategoryColumn(timeline_df)) :
                Cardinality(CategoryRows(c)) < 3 =>
                    /\ \A i \in DOMAIN bursts : bursts[i].category # c
                    /\ bursts = detect_bursts_in_timeline(WithoutCategory(timeline_df, c),
                                                          sensitivity)
          /\ \A r \in TimelineRows :
                (Cardinality(CategoryRows(r.category)) >= 3 /\ HasWindow(r)
                     /\ AboveThreshold(r, sensitivity)) =>
                    <<r.category, r.period>> \in FlagSet(bursts)
    /\ (SeriesDone /\ ValidSensitivity(sensitivity) /\ Len(data) >= 3) =>
          (FlaggedPositions # {} => bursts # <<>>)

\* the positions of the counts x that exceed mean + (2/s)*std of a centred rolling
\* window of max(3, n // 10) buckets, n the number of buckets
FlaggedWithScaledWindow(x, s) ==
    LET w == Max(3, Len(x) \div 10)
    IN  {i \in DOMAIN x : ExceedsThreshold(x[i], rolling_mean(x, i, w), rolling_std(x, i, w), s)}

\* C13: in detect_bursts_in_timeline and in detect_bursts the buckets of a category
\* of n buckets are tested against a rolling window of max(3, n // 10) buckets.
C13_WindowSize ==
    /\ (TimelineDone /\ ValidSensitivity(sensitivity)) =>
          \A c \in Range(CategoryColumn(timeline_df)) :
              LET cat_data == SortValuesByPeriod(SelectCategory(timeline_df, c))
              IN  Len(cat_data) >= 3 =>
                      {b[2] : b \in {f \in FlagSet(bursts) : f[1] = c}}
                        = {cat_data[i].period :
                              i \in FlaggedWithScaledWindow(CountColumn(cat_data), sensitivity)}
    /\ (MaskWalked /\ ValidSensitivity(sensitivity)) =>
          UNION {EpisodePositions(bursts[k]) : k \in DOMAIN bursts}
            = FlaggedWithScaledWindow(ValueColumn(data), sensitivity)

\* C14: a call of detect_bursts_in_timeline or of detect_bursts with a sensitivity
\* <= 0 or > 10 ends in an error reported to the caller: it ends neither at a return
\* of the body nor with the [] of the except clause.
C14_InvalidSensitivityRejected ==
    ((TimelineDone \/ SeriesDone) /\ ~ ValidSensitivity(sensitivity)) =>
        outcome \notin {"return", "except"}

----------------------------------------------------------------------------
ValidateDone == pc = "validate_burst_parameters"

\* the checks in the order of the claim, each with its message
ValidationChecks ==
    << [fails |-> Len(data) < 3,
        message |-> "Insufficient data points for burst detection (minimum 3 required)"],
       [fails |-> sensitivity <= 0, message |-> "Sensitivity must be positive"],
       [fails |-> sensitivity > 100, message |-> "Sensitivity too high (maximum 10)"],
       [fails |-> \A i \in DOMAIN data : data[i].value = NaN,
        message |-> "All data points are missing"],
       [fails |-> \E i \in DOMAIN data : data[i].value \in {[num |-> 0 - 1, den |-> 1]},
        message |-> "Negative values not supported in burst detection"] >>

----------------------------------------------------------------------------
\* the categories whose processing raises at a sensitivity in (0, 10]
FailingCategories(df) == {c \in Range(CategoryColumn(df)) : SortRaises(df, c)}

\* C16: when the processing of a category fails inside detect_bursts_in_timeline, the
\* call returns the bursts of the other categories, as it does for the timeline
\* without the rows of the failing category.
C16_FailureIsolation ==
    (TimelineDone /\ ValidSensitivity(sensitivity)) =>
        LET failing == FailingCategories(timeline_df)
        IN  failing # {} =>
                bursts = detect_bursts_in_timeline(
                             SelectSeq(timeline_df, LAMBDA row : row.category \notin failing),
                             sensitivity)

----------------------------------------------------------------------------
Reverse(seq) == [i \in 1..Len(seq) |-> seq[Len(seq) + 1 - i]]

\* the rows from the k-th on, followed by the rows before it
Rotate(seq, k) == SubSeq(seq, k, Len(seq)) \o SubSeq(seq, 1, k - 1)

\* some orders of the same rows
RowOrders(df) == {Reverse(df), Rotate(df, 2), Rotate(df, Len(df))}

\* C17: for the same rows and the same sensitivity detect_bursts_in_timeline returns
\* the same ordered list of bursts whatever the order of the rows in the input.
C17_RowOrderIndependence ==
    (TimelineDone /\ ValidSensitivity(sensitivity)) =>
        \A df \in RowOrders(timeline_df) :
            detect_bursts_in_timeline(df, sensitivity) = bursts

----------------------------------------------------------------------------
\* the intensity 0 of a bucket that equals the mean of its window
ZeroIntensity == [dev |-> 0, var |-> 0, w |-> 3, plus |-> 1]

\* C18: for a sensitivity in (0, 10] every burst returned by detect_bursts_in_timeline
\* has a count >= 0, a count greater than its baseline and an intensity greater
\* than 0.
C18_BurstAboveBaseline ==
    (TimelineDone /\ ValidSensitivity(sensitivity)) =>
        \A i \in DOMAIN bursts :
            /\ bursts[i].count >= 0
            /\ bursts[i].count * bursts[i].baseline.den > bursts[i].baseline.num
            /\ CompareIntensity(bursts[i].intensity, ZeroIntensity) = 1

\* a burst with a neighbour above 0 in a category that also has a bucket below the
\* mean of its window
C18_Witness ==
    /\ TimelineDone /\ ValidSensitivity(sensitivity)
    /\ \E i \in DOMAIN bursts :
          /\ bursts[i].baseline.num > bursts[i].count
          /\ \E r \in CategoryRows(bursts[i].category) :
                HasWindow(r) /\ 3 * r.count < WindowSum(r)

----------------------------------------------------------------------------
StatisticsDone == pc = "calculate_burst_statistics"

\* C19: on an empty list calculate_burst_statistics returns total_bursts,
\* average_duration, average_intensity and total_burst_time, each 0, and the call
\* does not end in an exception.
C19_EmptyStatistics ==
    (StatisticsDone /\ bursts = <<>>) =>
        /\ outcome = "return"
        /\ \A key \in {"total_bursts", "average_duration", "average_intensity",
                       "total_burst_time"} :
               key \in DOMAIN stats /\ stats[key] = 0

\* the call on the empty list has returned
C19_Witness ==
    /\ StatisticsDone
    /\ bursts = <<>>
    /\ stats # <<>>

StatisticsKeys ==
    {"total_bursts", "average_duration", "average_intensity", "total_burst_time",
     "max_intensity", "min_intensity", "std_duration", "std_intensity"}

\* C20: calculate_burst_statistics returns the same eight keys on every outcome, and
\* on an empty list and on the internal-error path each of the eight has the value 0.
C20_SameEightKeys ==
    StatisticsDone =>
        /\ DOMAIN stats = StatisticsKeys
        /\ (bursts = <<>> \/ outcome = "except") =>
               \A key \in StatisticsKeys : stats[key] = 0

----------------------------------------------------------------------------
\* every burst of the list has a duration and an intensity
WellFormedBursts == \A i \in DOMAIN bursts : {"duration", "intensity"} \subseteq DOMAIN bursts[i]

----------------------------------------------------------------------------
----------------------------------------------------------------------------
(* Timeline aggregation. *)

Fetched == pc \in {"fetch_burst_timeline_data", "fetch_timeline_data"} /\ outcome = "return"

\* the observations: the relevant, labelled rows the caller's filters let through that
\* have a timestamp
Observed ==
    {i \in DOMAIN observations :
        /\ observations[i].is_relevant
        /\ observations[i].HLTP # NULL
        /\ observations[i].publication_date # NULL
        /\ TimelineWhere(observations[i], filters)}

\* the (bucket, category) pair of observation i when buckets are of the given unit
PairOf(i, unit) ==
    <<Ordinal(DATE_TRUNC(unit, observations[i].publication_date)),
      observations[i].HLTP.parts[1]>>

\* the unit the buckets of the result were made with
BucketUnit ==
    IF time_granularity = "quarter" /\ pc = "fetch_timeline_data" THEN "month"
    ELSE time_granularity

\* C23: the result has exactly one row per (bucket, category) pair with an observation
\* that has a timestamp, its count the number of these observations, the rows ascending
\* by bucket and then category; without such an observation the result is empty.
C23_OneRowPerBucketAndCategory ==
    Fetched =>
        LET pair(k) == <<timeline_df[k].period, timeline_df[k].category>>
        IN  /\ \A i \in Observed : \E k \in DOMAIN timeline_df : pair(k) = PairOf(i, BucketUnit)
            /\ \A k \in DOMAIN timeline_df :
                  /\ timeline_df[k].count >= 1
                  /\ timeline_df[k].count
                        = Cardinality({i \in Observed : PairOf(i, BucketUnit) = pair(k)})
            /\ \A j, k \in DOMAIN timeline_df :
                  j < k => \/ timeline_df[j].period < timeline_df[k].period
                           \/ /\ timeline_df[j].period = timeline_df[k].period
                              /\ CategoryRank(timeline_df[j].category)
                                    < CategoryRank(timeline_df[k].category)
            /\ Observed = {} => timeline_df = <<>>

\* C24: every period of the result is the start of the bucket, at the granularity
\* that was asked for, of an observation.
C24_RequestedGranularity ==
    Fetched =>
        \A k \in DOMAIN timeline_df :
            \E i \in Observed :
                timeline_df[k].period
                    = Ordinal(DATE_TRUNC(time_granularity, observations[i].publication_date))

----------------------------------------------------------------------------
(* The callback. *)

AnalyzeDone == pc = "analyze_bursts" /\ n_clicks > 0

ErrorAlert == "Error analyzing bursts"

\* C25: after a click analyze_bursts shows the warning when the timeline is empty, the
\* message when the detector found no burst, and the results view with a store payload
\* that holds the bursts and the timeline whenever the detector found a burst; the
\* error alert is shown only when the fetch or the detection failed.
C25_CallbackOutcomes ==
    AnalyzeDone =>
        /\ timeline_df = <<>> =>
              children = "No temporal data found for burst analysis." /\ store = EmptyDict
        /\ (timeline_df # <<>> /\ bursts = <<>>) =>
              /\ children = "No significant bursts detected. Try adjusting the sensitivity."
              /\ store = EmptyDict
        /\ bursts # <<>> =>
              /\ children = "results"
              /\ store # EmptyDict
              /\ store.bursts # <<>>
              /\ store.timeline_data # <<>>
        /\ children = ErrorAlert =>
              timeline_df = <<>> \/ TimelineRaises(timeline_df, sensitivity)

----------------------------------------------------------------------------
\* C26: with the window of 3 buckets and the sample standard deviation no bucket
\* exceeds mean + (2/s) * std when 0 < s <= 1.7: detect_bursts_in_timeline returns
\* an empty list for every timeline.
C26_NoBurstUpToSqrtThree ==
    (TimelineDone /\ sensitivity > 0 /\ 10 * sensitivity <= 17 * Tenth) => bursts = <<>>

\* a call with sensitivity 1.7 that returned normally with no burst, on a timeline in
\* which sensitivity 1.8 finds one
C26_Witness ==
    /\ TimelineDone
    /\ outcome = "return"
    /\ 10 * sensitivity = 17 * Tenth
    /\ bursts = <<>>
    /\ detect_bursts_in_timeline(timeline_df, sensitivity + 1) # <<>>

----------------------------------------------------------------------------
----------------------------------------------------------------------------
(* The cache. *)

\* the age of the entry of key, for a key that has a timestamp
EntryAge(key) == clock - _cache_timestamps[key]

\* C28: in a series of calls one after the other, a call executes the wrapped function
\* exactly if its key has no entry or the entry is at least timeout seconds old;
\* otherwise it returns the stored result, stored less than timeout seconds before,
\* and leaves the entry and its timestamp as they were.
C28_HitOnlyWhileFresh ==
    [][(calls'[1].number = calls[1].number + 1 /\ calls'[1].op = "wrapper") =>
          LET key == CacheKey(calls'[1].func, calls'[1].args)
              stale == key \notin DOMAIN _cache \/ EntryAge(key) >= Timeout
          IN  /\ calls'[1].executed <=> stale
              /\ ~stale =>
                    /\ calls'[1].outcome = "return"
                    /\ calls'[1].returned = _cache[key]
                    /\ EntryAge(key) < Timeout
                    /\ _cache' = _cache
                    /\ _cache_timestamps' = _cache_timestamps]_vars

\* a call that returned the stored result of an earlier call, a second after it
C28_Witness ==
    /\ calls[1].op = "wrapper"
    /\ ~calls[1].executed
    /\ calls[1].returned.computed_at < clock
    /\ calls[1].number >= 2

\* C29: when clear_cache has returned the cache holds no entry and no timestamp,
\* get_cache_stats gives total_entries 0 and oldest_entry = newest_entry = None, and
\* the call of a cached function that comes next executes the wrapped function.
C29_ClearedCacheIsEmpty ==
    [][/\ (calls'[1].number = calls[1].number + 1 /\ calls'[1].op = "clear_cache") =>
              /\ _cache' = <<>>
              /\ _cache_timestamps' = <<>>
              /\ calls'[1].stats.total_entries = 0
              /\ calls'[1].stats.oldest_entry = None
              /\ calls'[1].stats.newest_entry = None
       /\ (calls[1].op = "clear_cache" /\ calls'[1].number = calls[1].number + 1
              /\ calls'[1].op = "wrapper") => calls'[1].executed]_vars

\* clear_cache has returned after removing the entries of two keys
C29_Witness ==
    /\ calls[1].op = "clear_cache"
    /\ Cardinality(calls[1].removed) >= 2
    /\ _cache = <<>>

\* C30: when no call is under way the dict of results and the dict of timestamps
\* have the same keys.
C30_SameKeysWhenQuiescent ==
    (\A t \in DOMAIN calls : calls[t] = Idle) => DOMAIN _cache = DOMAIN _cache_timestamps

====
